---- MODULE Spec2Model ----
(***************************************************************************)
(* Model of the read_hdf5 table function (src/src/lib.rs): the schema      *)
(* projector iter_dtype, the projection resolver project_dtype, the field  *)
(* decoder fill, and the row cursor Hdf5ReadBindData::fill driven by       *)
(* Hdf5Read::func through one shared atomic position counter.              *)
(***************************************************************************)
EXTENDS Integers, Sequences, FiniteSets, TLC

\* ------------------------------------------------------------------ bounds
MaxRecords == 2     \* records in the dataset buffer: 0..MaxRecords
MaxWorkers == 2     \* scan workers calling func concurrently: 1..MaxWorkers
ExtraCalls == 2     \* calls of func allowed beyond the number of records
MaxTrunc == 1       \* bytes cut off the end of a raw buffer (SpecRaw only)

\* ------------------------------------------------------- program constants
USizeBytes == 8     \* size_of::<usize>() = size_of::<*const u8>() (64-bit build)

\* ---------------------------------------------------------------- helpers
\* native (little-endian) byte image of the unsigned number n in w bytes
RECURSIVE LE(_, _)
LE(n, w) == IF w = 0 THEN <<>> ELSE <<n % 256>> \o LE(n \div 256, w - 1)

\* the unsigned number a native byte image stands for (read_unaligned of uN)
RECURSIVE AsUnsigned(_)
AsUnsigned(bytes) ==
    IF bytes = <<>> THEN 0
    ELSE bytes[1] + 256 * AsUnsigned(Tail(bytes))

\* the signed (two's complement) number of a byte image (read_unaligned of iN)
AsSigned(bytes) ==
    IF bytes[Len(bytes)] >= 128
    THEN -(AsUnsigned([i \in DOMAIN bytes |-> 255 - bytes[i]]) + 1)
    ELSE AsUnsigned(bytes)

\* read_unaligned of bool: 0 is false, 1 is true
AsBool(bytes) == bytes[1] = 1

Min(a, b) == IF a < b THEN a ELSE b

RECURSIVE Concat(_)
Concat(ss) == IF ss = <<>> THEN <<>> ELSE Head(ss) \o Concat(Tail(ss))

\* ------------------------------------------------- TypeDescriptor (hdf5 crate)
\* Every descriptor is a record of one shape:
\*   tag    the variant, n its scalar width / array length / text capacity,
\*   elem   <<T>> for Enum(base), FixedArray(T, n), VarLenArray(T); else <<>>
\*   fields the CompoundType's fields [name, ty, offset]; size its c.size
TD(tag, n) == [tag |-> tag, n |-> n, elem |-> <<>>, fields |-> <<>>, size |-> 0]
Integer(n) == TD("Integer", n)
Unsigned(n) == TD("Unsigned", n)
Float(n) == TD("Float", n)
Boolean == TD("Boolean", 1)
Enum(base) == [TD("Enum", base.n) EXCEPT !.elem = <<base>>]
FixedArray(ty, len) == [TD("FixedArray", len) EXCEPT !.elem = <<ty>>]
VarLenArrayT(ty) == [TD("VarLenArray", 0) EXCEPT !.elem = <<ty>>]
FixedAscii(len) == TD("FixedAscii", len)
VarLenAscii == TD("VarLenAscii", 0)
Reference == TD("Reference", USizeBytes)
Compound(fields, size) == [TD("Compound", 0) EXCEPT !.fields = fields, !.size = size]
Field(name, ty, offset) == [name |-> name, ty |-> ty, offset |-> offset]

\* TypeDescriptor::size(), as called at lib.rs 148, 153, 171, 206
RECURSIVE Size(_)
Size(d) ==
    CASE d.tag \in {"Integer", "Unsigned", "Float", "Enum"} -> d.n
      [] d.tag = "Boolean" -> 1
      [] d.tag = "Compound" -> d.size
      [] d.tag = "FixedArray" -> Size(d.elem[1]) * d.n
      [] d.tag = "FixedAscii" -> d.n
      [] d.tag = "VarLenArray" -> 2 * USizeBytes
      [] d.tag = "VarLenAscii" -> USizeBytes
      [] d.tag = "Reference" -> d.n

\* ------------------------------------------------------- the dataset catalogue
\* Descriptors of the datasets the model opens.  Every field lies inside its
\* compound's size, as the HDF5 library enforces when a member is inserted.
Inner2 == Compound(<<Field("x", Integer(1), 0), Field("y", Integer(1), 1)>>, 2)
Inner1 == Compound(<<Field("x", Integer(1), 0)>>, 1)

DScalar == Unsigned(4)
DPair == Compound(<<Field("id", Unsigned(4), 0), Field("flag", Boolean, 4)>>, 8)
DPadded == Compound(<<Field("a", Unsigned(4), 0), Field("b", Unsigned(4), 4)>>, 12)
DThree == Compound(<<Field("a", Unsigned(1), 0), Field("b", Unsigned(1), 1),
                     Field("c", Unsigned(1), 3)>>, 4)
DNested == Compound(<<Field("a", Integer(4), 0), Field("b", Inner2, 4)>>, 8)
DNestedFirst == Compound(<<Field("b", Inner2, 0), Field("c", Integer(1), 2)>>, 4)
DNestedOne == Compound(<<Field("a", Integer(1), 0), Field("b", Inner1, 1)>>, 2)
DVarLen == VarLenArrayT(Unsigned(1))
DVarLenRec == Compound(<<Field("v", VarLenArrayT(Unsigned(1)), 0),
                         Field("t", Unsigned(1), 16)>>, 24)
DText == VarLenAscii
DMisc == Compound(<<Field("e", Enum(Unsigned(1)), 0),
                    Field("arr", FixedArray(Unsigned(1), 2), 1)>>, 3)
DFixedText == FixedAscii(2)

\* Out-of-line payloads of variable-length values: address -> bytes.  A text
\* payload is NUL-terminated; an array payload holds at least count elements.
HeapAddrs == {32, 48, 64}
Heap == [a \in HeapAddrs |->
            CASE a = 32 -> <<7, 9, 0>>
              [] a = 48 -> <<104, 105, 0>>
              [] a = 64 -> <<5>>]

\* the two sample records of each dataset, as H5Dread lays them out
Samples(d) ==
    CASE d = DScalar -> <<LE(1, 4), LE(258, 4)>>
      [] d = DPair -> <<LE(1, 4) \o <<1, 0, 0, 0>>, LE(2, 4) \o <<0, 0, 0, 0>>>>
      [] d = DPadded -> <<LE(1, 4) \o LE(2, 4) \o <<9, 9, 9, 9>>,
                          LE(3, 4) \o LE(4, 4) \o <<0, 0, 0, 0>>>>
      [] d = DThree -> <<<<10, 20, 99, 30>>, <<11, 21, 98, 31>>>>
      [] d = DNested -> <<LE(5, 4) \o <<6, 7, 0, 0>>, LE(8, 4) \o <<255, 1, 0, 0>>>>
      [] d = DNestedFirst -> <<<<6, 7, 8, 0>>, <<1, 2, 3, 0>>>>
      [] d = DNestedOne -> <<<<6, 7>>, <<1, 2>>>>
      [] d = DVarLen -> <<LE(2, USizeBytes) \o LE(32, USizeBytes),
                          LE(1, USizeBytes) \o LE(64, USizeBytes)>>
      [] d = DVarLenRec -> <<LE(2, USizeBytes) \o LE(32, USizeBytes) \o LE(77, 8),
                             LE(1, USizeBytes) \o LE(64, USizeBytes) \o LE(78, 8)>>
      [] d = DText -> <<LE(48, USizeBytes), LE(32, USizeBytes)>>
      [] d = DMisc -> <<<<1, 2, 3>>, <<0, 4, 5>>>>
      [] d = DFixedText -> <<<<65, 66>>, <<67, 68>>>>

DTypes == {DScalar, DPair, DPadded, DThree, DNested, DNestedFirst, DNestedOne,
           DVarLen, DVarLenRec, DText, DMisc, DFixedText}

\* ------------------------------------------------------------ LogicalTypeHandle
LT(id) == [id |-> id, children |-> <<>>, n |-> 0]
struct_type(cols) == [id |-> "Struct", children |-> cols, n |-> 0]
array(inner, len) == [id |-> "Array", children |-> <<[name |-> "", ty |-> inner]>>, n |-> len]
list(inner) == [id |-> "List", children |-> <<[name |-> "", ty |-> inner]>>, n |-> 0]
Col(name, ty) == [name |-> name, ty |-> ty]

RESULT_COLNAME == "result"

IntegerId(n) ==
    CASE n = 1 -> "Tinyint" [] n = 2 -> "Smallint" [] n = 4 -> "Integer" [] n = 8 -> "Bigint"
UnsignedId(n) ==
    CASE n = 1 -> "UTinyint" [] n = 2 -> "USmallint" [] n = 4 -> "UInteger" [] n = 8 -> "UBigint"
FloatId(n) == CASE n = 4 -> "Float" [] n = 8 -> "Double"

\* the type published for one compound field from the columns of its own type
FieldColumnType(sub) ==
    IF Len(sub) > 1 THEN struct_type(sub) ELSE sub[1].ty

\* iter_dtype: descriptor -> ordered (name, logical type) columns
RECURSIVE iter_dtype(_)
iter_dtype(d) ==
    CASE d.tag = "Integer" -> <<Col(RESULT_COLNAME, LT(IntegerId(d.n)))>>
      [] d.tag = "Unsigned" -> <<Col(RESULT_COLNAME, LT(UnsignedId(d.n)))>>
      [] d.tag = "Float" -> <<Col(RESULT_COLNAME, LT(FloatId(d.n)))>>
      [] d.tag = "Boolean" -> <<Col(RESULT_COLNAME, LT("Boolean"))>>
      [] d.tag = "Enum" -> iter_dtype(d.elem[1])
      [] d.tag = "Compound" ->
            [i \in 1..Len(d.fields) |->
                Col(d.fields[i].name, FieldColumnType(iter_dtype(d.fields[i].ty)))]
      [] d.tag = "FixedArray" ->
            <<Col(RESULT_COLNAME, array(iter_dtype(d.elem[1])[1].ty, d.n))>>
      [] d.tag = "VarLenArray" ->
            <<Col(RESULT_COLNAME, list(iter_dtype(d.elem[1])[1].ty))>>
      [] d.tag \in {"FixedAscii", "VarLenAscii"} -> <<Col(RESULT_COLNAME, LT("Varchar"))>>
      [] d.tag = "Reference" -> <<Col(RESULT_COLNAME, LT("Blob"))>>

\* ---------------------------------------------------------------- byte slices
\* A Rust &[u8]: its bytes and the absolute buffer offset of its first byte.
Slice(bytes, at) == [bytes |-> bytes, at |-> at]
\* &slice[k..]  (panics when k > len; callers test SliceFromOk first)
SliceFrom(slice, k) == Slice(SubSeq(slice.bytes, k + 1, Len(slice.bytes)), slice.at + k)
SliceFromOk(slice, k) == k <= Len(slice.bytes)
\* &slice[..k]  (panics when k > len; callers test SliceToOk first)
SliceTo(slice, k) == Slice(SubSeq(slice.bytes, 1, k), slice.at)
SliceToOk(slice, k) == k <= Len(slice.bytes)

\* as_bytes() of a VarLenAscii / VarLenUnicode: the payload up to its NUL
RECURSIVE CStr(_)
CStr(bytes) ==
    IF bytes = <<>> \/ Head(bytes) = 0 THEN <<>>
    ELSE <<Head(bytes)>> \o CStr(Tail(bytes))

\* --------------------------------------------------------------- DataChunkHandle
\* One write into the output chunk: the column, the vector accessor used,
\* the Rust type stored, the bytes stored, and where they were taken from
\* (src: absolute buffer offset, or -1; heap: payload address, or -1).
Write(col, kind, ty, bytes, src, heap) ==
    [col |-> col, kind |-> kind, ty |-> ty, bytes |-> bytes, src |-> src, heap |-> heap]
Ok(writes) == [panic |-> FALSE, writes |-> writes]
Panicked(writes) == [panic |-> TRUE, writes |-> writes]

RustType(d) ==
    CASE d.tag = "Integer" -> (CASE d.n = 1 -> "i8" [] d.n = 2 -> "i16"
                                 [] d.n = 4 -> "i32" [] d.n = 8 -> "i64")
      [] d.tag = "Unsigned" -> (CASE d.n = 1 -> "u8" [] d.n = 2 -> "u16"
                                  [] d.n = 4 -> "u32" [] d.n = 8 -> "u64")
      [] d.tag = "Float" -> (CASE d.n = 4 -> "f32" [] d.n = 8 -> "f64")
      [] d.tag = "Boolean" -> "bool"

\* An unchecked read of n bytes at the start of a slice (as_ptr().cast().read):
\* inside the slice it yields those bytes; past its end the read is undefined,
\* which the write records as kind "..._oob" with the bytes the slice does hold.
InSlice(slice, n) == n <= Len(slice.bytes)
ReadPrefix(slice, n) == SubSeq(slice.bytes, 1, Min(n, Len(slice.bytes)))
Checked(slice, n, kind) == IF InSlice(slice, n) THEN kind ELSE kind \o "_oob"

\* fill_vec!: output.flat_vector(idx)[0] = read_unaligned::<t>(slice.as_ptr())
fill_vec(idx, slice, d) ==
    Ok(<<Write(idx, Checked(slice, Size(d), "flat"), RustType(d),
               ReadPrefix(slice, Size(d)), slice.at, -1)>>)

\* the span a VarLenArray value hands to list_vector(idx).set_child:
\* &slice[..array.len() * ty.size()], array being the header at the slice start
VarLenSpanLen(d, slice) ==
    AsUnsigned(ReadPrefix(slice, USizeBytes)) * Size(d.elem[1])
fill_varlen_array(d, slice, idx) ==
    LET n == VarLenSpanLen(d, slice)
    IN IF SliceToOk(slice, n)
       THEN Ok(<<Write(idx, Checked(slice, 2 * USizeBytes, "list_child"), "bytes",
                       SliceTo(slice, n).bytes, slice.at, -1)>>)
       ELSE Panicked(<<>>)

\* the bytes a VarLenAscii / VarLenUnicode value hands to set_child:
\* array.as_bytes(), read through the pointer stored at the slice start
fill_varlen_text(d, slice, idx) ==
    LET ptr == AsUnsigned(ReadPrefix(slice, USizeBytes))
    IN Ok(<<Write(idx, Checked(slice, USizeBytes, "list_child"), "bytes",
                  CStr(Heap[ptr]), -1, ptr)>>)

\* the field's own slice in the compound loop: &slice[f.offset..]
FieldSlice(slice, f) == SliceFrom(slice, f.offset)

\* fill: decode one value of type d at the start of slice into column idx
RECURSIVE fill(_, _, _)
RECURSIVE fill_fields(_, _, _, _, _)
fill(d, slice, idx) ==
    CASE d.tag \in {"Integer", "Unsigned", "Float", "Boolean"} -> fill_vec(idx, slice, d)
      [] d.tag = "Enum" -> fill(d.elem[1], slice, idx)
      [] d.tag = "Compound" -> fill_fields(d.fields, 1, slice, idx, <<>>)
      [] d.tag = "FixedArray" ->
            LET n == d.n * Size(d.elem[1])
            IN IF SliceToOk(slice, n)
               THEN Ok(<<Write(idx, "array_child", "bytes", SliceTo(slice, n).bytes, slice.at, -1)>>)
               ELSE Panicked(<<>>)
      [] d.tag = "VarLenArray" -> fill_varlen_array(d, slice, idx)
      [] d.tag = "FixedAscii" ->
            IF SliceToOk(slice, d.n)
            THEN Ok(<<Write(idx, "array_child", "bytes", SliceTo(slice, d.n).bytes, slice.at, -1)>>)
            ELSE Panicked(<<>>)
      [] d.tag = "VarLenAscii" -> fill_varlen_text(d, slice, idx)
      [] d.tag = "Reference" ->
            IF SliceToOk(slice, Size(d))
            THEN Ok(<<Write(idx, "blob", "bytes", SliceTo(slice, Size(d)).bytes, slice.at, -1)>>)
            ELSE Panicked(<<>>)

\* the loop of the Compound arm: for (i, f) in c.fields.iter().enumerate()
\* (k is i + 1; acc the writes made so far)
fill_fields(fields, k, slice, idx, acc) ==
    IF k > Len(fields) THEN Ok(acc)
    ELSE LET f == fields[k]
         IN IF ~SliceFromOk(slice, f.offset) THEN Panicked(acc)
            ELSE LET r == fill(f.ty, FieldSlice(slice, f), idx + (k - 1))
                 IN IF r.panic THEN Panicked(acc \o r.writes)
                    ELSE fill_fields(fields, k + 1, slice, idx, acc \o r.writes)

\* ------------------------------------------------------------ Hdf5ReadBindData
\* the byte size the projected compound is given
ProjectedSize(c, fields) == c.size

\* variant: the projected fields kept in declaration order, not request order
RECURSIVE KeepDeclared(_, _, _)
KeepDeclared(fields, keep, k) ==
    IF k > Len(fields) THEN <<>>
    ELSE (IF (k - 1) \in keep THEN <<fields[k]>> ELSE <<>>) \o KeepDeclared(fields, keep, k + 1)
project_dtype_declorder(dtype, indices) ==
    IF dtype.tag = "Compound"
    THEN Compound(KeepDeclared(dtype.fields, {indices[j] : j \in DOMAIN indices}, 1), dtype.size)
    ELSE dtype

\* variant: the projected fields laid out again contiguously from offset 0
RECURSIVE Repack(_, _, _)
Repack(fields, k, at) ==
    IF k > Len(fields) THEN <<>>
    ELSE <<[fields[k] EXCEPT !.offset = at]>> \o Repack(fields, k + 1, at + Size(fields[k].ty))
project_dtype_repacked(dtype, indices) ==
    IF dtype.tag = "Compound"
    THEN Compound(Repack([j \in 1..Len(indices) |-> dtype.fields[indices[j] + 1]], 1, 0),
                  dtype.size)
    ELSE dtype

\* project_dtype: Some(descriptor), or None when c.fields[i] is out of range
project_dtype_ok(dtype, indices) ==
    dtype.tag = "Compound" =>
        \A j \in 1..Len(indices) : indices[j] < Len(dtype.fields)
project_dtype(dtype, indices) ==
    IF dtype.tag = "Compound"
    THEN LET fields == [j \in 1..Len(indices) |-> dtype.fields[indices[j] + 1]]
         IN Compound(fields, ProjectedSize(dtype, fields))
    ELSE dtype

\* variants: the exhaustion test with = and with > in place of >=
Exhausted_eq(index, sz, len) == index * sz = len
Exhausted_gt(index, sz, len) == index * sz > len

\* the exhaustion test of the cursor
Exhausted(index, sz, len) == index * sz >= len

\* variant: the stride taken as the sum of the sizes of the fields present
RECURSIVE SumFieldSizes(_, _)
SumFieldSizes(fields, k) ==
    IF k > Len(fields) THEN 0 ELSE Size(fields[k].ty) + SumFieldSizes(fields, k + 1)
item_size_packed(bind_dtype, scan_dtype) ==
    IF bind_dtype.tag = "Compound" THEN SumFieldSizes(bind_dtype.fields, 1)
    ELSE Size(bind_dtype)

\* the size the cursor strides by
item_size(bind_dtype, scan_dtype) == Size(bind_dtype)

\* Hdf5ReadBindData::fill: the output chunk after the call
\*   status "zero" = set_len(0), "row" = set_len(1), "panic" = the call panicked
\*   at/span: the record slice handed to the field decoder
Output(status, at, span, writes) ==
    [status |-> status, at |-> at, span |-> span, writes |-> writes]
NoOutput == Output("none", -1, 0, <<>>)
\* variant: the record slice clamped to what is left of the buffer
bind_fill_clamped(bind_dtype, bind_data, index, dtype) ==
    LET sz == Size(bind_dtype)
    IN IF index * sz >= Len(bind_data) THEN Output("zero", -1, 0, <<>>)
       ELSE LET rest == SliceFrom(Slice(bind_data, 0), index * sz)
                rec == SliceTo(rest, Min(sz, Len(rest.bytes)))
                r == fill(dtype, rec, 0)
            IN Output(IF r.panic THEN "panic" ELSE "row", rec.at, Len(rec.bytes), r.writes)

bind_fill(bind_dtype, bind_data, index, dtype) ==
    LET sz == item_size(bind_dtype, dtype)
    IN IF Exhausted(index, sz, Len(bind_data)) THEN Output("zero", -1, 0, <<>>)
       ELSE IF ~SliceFromOk(Slice(bind_data, 0), index * sz) THEN Output("panic", -1, 0, <<>>)
       ELSE LET rest == SliceFrom(Slice(bind_data, 0), index * sz)
            IN IF ~SliceToOk(rest, sz) THEN Output("panic", -1, 0, <<>>)
               ELSE LET rec == SliceTo(rest, sz)
                        r == fill(dtype, rec, 0)
                    IN Output(IF r.panic THEN "panic" ELSE "row",
                              rec.at, Len(rec.bytes), r.writes)

\* ------------------------------------------------------------------- the state
VARIABLES
    dtype,          \* Hdf5ReadBindData.dtype
    data,           \* Hdf5ReadBindData.data
    schema,         \* the result columns bind has added, in order
    phase,          \* "opened", "bound", "scanning" or "aborted"
    column_indices, \* InitInfo::get_column_indices() of the scan
    init_dtype,     \* Hdf5ReadInitData.dtype
    index,          \* Hdf5ReadInitData.index (AtomicUsize)
    nworkers,       \* how many host threads call func
    pc,             \* per worker: "idle", or "fetched" between fetch_add and fill
    local,          \* per worker: the value its fetch_add returned
    output,         \* per worker: the chunk of its current / last call
    callk,          \* per worker: the rank of its current / last call (0-based)
    afterZero,      \* per worker: its call began after some call reported zero rows
    started,        \* calls of func begun so far
    sawZero,        \* some call has reported zero rows
    rowsAt          \* byte offset -> calls that reported a row decoded from there

vars == <<dtype, data, schema, phase, column_indices, init_dtype, index, nworkers,
          pc, local, output, callk, afterZero, started, sawZero, rowsAt>>

Workers == 1..MaxWorkers

\* the buffers read_raw_bytes returns: len * item_size bytes, whole records
\* (the two sample records in turn)
Buffers(d) ==
    { Concat([k \in 1..n |-> Samples(d)[((k - 1) % 2) + 1]]) : n \in 0..MaxRecords }

\* the column lists the host may request: distinct published columns in any order
Requests(d) ==
    LET n == Len(iter_dtype(d))
    IN { q \in UNION {[1..k -> 0..(n - 1)] : k \in 1..n} :
            \A a, b \in DOMAIN q : a # b => q[a] # q[b] }

InitScan(d, buffer) ==
    /\ dtype = d
    /\ data = buffer
    /\ nworkers \in 1..MaxWorkers
    /\ schema = <<>>
    /\ phase = "opened"
    /\ column_indices = <<>>
    /\ init_dtype = dtype
    /\ index = 0
    /\ pc = [w \in Workers |-> "idle"]
    /\ local = [w \in Workers |-> 0]
    /\ output = [w \in Workers |-> NoOutput]
    /\ callk = [w \in Workers |-> 0]
    /\ afterZero = [w \in Workers |-> FALSE]
    /\ started = 0
    /\ sawZero = FALSE
    /\ rowsAt = [o \in 0..Len(data) |-> 0]

\* Hdf5ReadBindData::new has returned the dataset's descriptor and bytes
Init == \E d \in DTypes : \E buffer \in Buffers(d) : InitScan(d, buffer)

\* VTab::bind: publish one result column per entry of iter_dtype
bind ==
    /\ phase = "opened"
    /\ schema' = iter_dtype(dtype)
    /\ phase' = "bound"
    /\ UNCHANGED <<dtype, data, column_indices, init_dtype, index, nworkers, pc, local,
                   output, callk, afterZero, started, sawZero, rowsAt>>

\* VTab::init: project the descriptor, start the counter at 0
init(indices) ==
    /\ phase = "bound"
    /\ column_indices' = indices
    /\ IF project_dtype_ok(dtype, indices)
       THEN /\ init_dtype' = project_dtype(dtype, indices)
            /\ phase' = "scanning"
       ELSE /\ init_dtype' = init_dtype
            /\ phase' = "aborted"
    /\ index' = 0
    /\ UNCHANGED <<dtype, data, schema, nworkers, pc, local, output, callk, afterZero,
                   started, sawZero, rowsAt>>

\* variant: the counter read with load(), never advanced
fetch_add_load(i) == i

\* AtomicUsize::fetch_add(1): the new value of the counter (the guard of
\* func_fetch keeps it far below usize::MAX, where it would wrap)
fetch_add(i) == i + 1

NumRecords == Len(data) \div Size(dtype)

\* VTab::func, first half: index = init_data.index.fetch_add(1, Relaxed)
func_fetch(w) ==
    /\ phase = "scanning"
    /\ w <= nworkers
    /\ pc[w] = "idle"
    /\ started < NumRecords + ExtraCalls
    /\ local' = [local EXCEPT ![w] = index]
    /\ index' = fetch_add(index)
    /\ pc' = [pc EXCEPT ![w] = "fetched"]
    /\ output' = [output EXCEPT ![w] = NoOutput]
    /\ callk' = [callk EXCEPT ![w] = started]
    /\ afterZero' = [afterZero EXCEPT ![w] = sawZero]
    /\ started' = started + 1
    /\ UNCHANGED <<dtype, data, schema, phase, column_indices, init_dtype, nworkers,
                   sawZero, rowsAt>>

\* VTab::func, second half: bind_data.fill(index, &init_data.dtype, output)
func_fill(w) ==
    /\ phase = "scanning"
    /\ pc[w] = "fetched"
    /\ LET out == bind_fill(dtype, data, local[w], init_dtype)
       IN /\ output' = [output EXCEPT ![w] = out]
          /\ phase' = IF out.status = "panic" THEN "aborted" ELSE phase
          /\ sawZero' = (sawZero \/ out.status = "zero")
          /\ rowsAt' = IF out.status = "row" /\ out.at \in DOMAIN rowsAt
                       THEN [rowsAt EXCEPT ![out.at] = @ + 1]
                       ELSE rowsAt
    /\ pc' = [pc EXCEPT ![w] = "idle"]
    /\ UNCHANGED <<dtype, data, schema, column_indices, init_dtype, index, nworkers,
                   local, callk, afterZero, started>>

Next ==
    \/ bind
    \/ \E indices \in Requests(dtype) : init(indices)
    \/ \E w \in Workers : func_fetch(w)
    \/ \E w \in Workers : func_fill(w)

Spec == Init /\ [][Next]_vars

\* The cursor over an arbitrary byte vector: the buffers of Init with up to
\* MaxTrunc bytes missing at the end.
RawBuffers(d) ==
    { SubSeq(b, 1, Len(b) - Min(t, Len(b))) : b \in Buffers(d), t \in 0..MaxTrunc }
InitRaw == \E d \in DTypes : \E buffer \in RawBuffers(d) : InitScan(d, buffer)
SpecRaw == InitRaw /\ [][Next]_vars

\* ================================================================ properties
AllIdle == \A w \in Workers : pc[w] = "idle"
Finished(w) == pc[w] = "idle" /\ output[w].status # "none"
Stride == Size(dtype)

RECURSIVE SumRows(_)
SumRows(o) == IF o < 0 THEN 0 ELSE rowsAt[o] + SumRows(o - 1)
RowsReported == SumRows(Len(data))

\* the last write made to column col of a chunk (col -1: none was made)
RECURSIVE LastWrite(_, _)
LastWrite(writes, col) ==
    IF writes = <<>> THEN Write(-1, "none", "", <<>>, -1, -1)
    ELSE IF writes[Len(writes)].col = col THEN writes[Len(writes)]
    ELSE LastWrite(SubSeq(writes, 1, Len(writes) - 1), col)

WritesTo(writes, col) == Cardinality({k \in DOMAIN writes : writes[k].col = col})

\* No unchecked read leaves its slice, in any chunk of either specification.
NoOutOfBoundsRead ==
    \A w \in Workers : \A k \in DOMAIN output[w].writes :
        output[w].writes[k].kind \in {"flat", "array_child", "list_child", "blob"}

\* C1: with any number of workers sharing the counter, no record is decoded
\* by two calls, rows come only from whole records of the buffer, and once
\* the counter has passed the last record and no call is in flight every
\* record 0..R-1 has been decoded exactly once: R rows in all.
C1_ExactlyOnce ==
    /\ \A o \in DOMAIN rowsAt :
          /\ rowsAt[o] <= 1
          /\ rowsAt[o] = 1 => o % Stride = 0 /\ o + Stride <= Len(data)
    /\ RowsReported <= NumRecords
    /\ (phase = "scanning" /\ AllIdle /\ index >= NumRecords) =>
          /\ \A i \in 0..(NumRecords - 1) : rowsAt[i * Stride] = 1
          /\ RowsReported = NumRecords

\* two workers, the later record decoded by worker 1, the scan drained
C1_Witness ==
    /\ nworkers >= 2 /\ NumRecords >= 2 /\ AllIdle /\ sawZero
    /\ RowsReported = NumRecords
    /\ local[1] = 1 /\ local[2] >= NumRecords
    /\ output[2].status = "zero"

\* C2: once a call has reported zero rows, every call begun afterwards, by
\* any worker, reports zero rows, and the counter stays at or past the end.
C2_ExhaustionIdempotent ==
    /\ \A w \in Workers : (afterZero[w] /\ Finished(w)) => output[w].status = "zero"
    /\ sawZero => index * Stride >= Len(data)

\* a call begun after a zero-row report, on a non-empty buffer, has finished
\* while the other worker had reported zero rows before
C2_Witness ==
    /\ NumRecords >= 1 /\ nworkers >= 2
    /\ afterZero[1] /\ Finished(1) /\ output[1].status = "zero"
    /\ output[2].status = "zero" /\ callk[2] < callk[1]

\* C3: with one consumer, call k (from 0) gets position k; for k < R it
\* reports one row decoded from bytes [k*S, k*S+S), for k >= R zero rows;
\* zero rows are reported exactly when position * S >= buffer length; and
\* the records (1,true),(2,false) of {id: uint32 @0, flag: bool @4} decode
\* to id 1, flag true, then id 2, flag false, then end of data.
PairData == Samples(DPair)[1] \o Samples(DPair)[2]
C3_SingleConsumerOrder ==
    (nworkers = 1 /\ Finished(1)) =>
        LET k == callk[1]
            out == output[1]
        IN /\ local[1] = k
           /\ k < NumRecords =>
                 /\ out.status = "row" /\ out.at = k * Stride /\ out.span = Stride
                 /\ \A j \in DOMAIN out.writes :
                       out.writes[j].src # -1 =>
                          /\ out.writes[j].src >= k * Stride
                          /\ out.writes[j].src + Len(out.writes[j].bytes) <= k * Stride + Stride
                          /\ out.writes[j].bytes =
                                SubSeq(data, out.writes[j].src + 1,
                                       out.writes[j].src + Len(out.writes[j].bytes))
           /\ k >= NumRecords => out.status = "zero"
           /\ (out.status = "zero") <=> (local[1] * Stride >= Len(data))
           /\ (dtype = DPair /\ data = PairData /\ column_indices = <<0, 1>>) =>
                 /\ k \in {0, 1} =>
                       /\ Len(out.writes) = 2
                       /\ out.writes[1].col = 0 /\ out.writes[1].ty = "u32"
                       /\ AsUnsigned(out.writes[1].bytes) = k + 1
                       /\ out.writes[2].col = 1 /\ out.writes[2].ty = "bool"
                       /\ AsBool(out.writes[2].bytes) = (k = 0)
                 /\ k = 2 => out.status = "zero"

\* the third call over the two Pair records has reported end of data
C3_Witness ==
    /\ nworkers = 1 /\ dtype = DPair /\ data = PairData /\ column_indices = <<0, 1>>
    /\ Finished(1) /\ callk[1] = 2 /\ output[1].status = "zero"

\* C4: for a Compound, projected or not, every row is decoded from the
\* record that starts at position * declared size and spans the declared
\* size, and the projected descriptor keeps the declared size.
C4_StrideIntegrity ==
    (dtype.tag = "Compound" /\ phase = "scanning") =>
        /\ init_dtype.tag = "Compound" /\ init_dtype.size = dtype.size
        /\ Size(init_dtype) = dtype.size
        /\ \A w \in Workers : output[w].status = "row" =>
              /\ output[w].at = local[w] * dtype.size
              /\ output[w].span = dtype.size

\* the second record of the size-12 compound with fields at 0 and 4,
\* scanned with one column only, was decoded from byte 12
C4_Witness ==
    /\ dtype = DPadded /\ Len(column_indices) = 1
    /\ \E w \in Workers : output[w].status = "row" /\ local[w] = 1 /\ output[w].at = 12

\* C5: for a Compound and valid requested indices the projected descriptor
\* is a Compound whose j-th field is the field at the j-th requested index,
\* name, offset and type unchanged; any other descriptor is returned as it
\* is; and no step changes the bind data's descriptor or buffer.
C5_State ==
    phase = "scanning" =>
        IF dtype.tag = "Compound"
        THEN /\ init_dtype.tag = "Compound"
             /\ Len(init_dtype.fields) = Len(column_indices)
             /\ \A j \in DOMAIN column_indices :
                   /\ init_dtype.fields[j].name = dtype.fields[column_indices[j] + 1].name
                   /\ init_dtype.fields[j].offset = dtype.fields[column_indices[j] + 1].offset
                   /\ init_dtype.fields[j].ty = dtype.fields[column_indices[j] + 1].ty
        ELSE init_dtype = dtype
C5_ProjectionResult ==
    /\ []C5_State
    /\ [][dtype' = dtype /\ data' = data]_vars

\* columns 2 and 0 of the three-field compound were requested, in that order
C5_Witness ==
    /\ phase = "scanning" /\ dtype = DThree /\ column_indices = <<2, 0>>
    /\ Len(init_dtype.fields) = 2 /\ init_dtype.fields[1].name = "c"

\* C6: in every row of a projected Compound, the value left in output
\* column j was read at the record start plus the original offset of the
\* j-th requested field: a scalar column holds exactly the bytes found
\* there, a variable-length text was read through the pointer stored there,
\* and a nested Compound was read inside the field's own bytes.
Scalar(d) == d.tag \in {"Integer", "Unsigned", "Float", "Boolean", "Enum"}
C6_OffsetPreserved ==
    (dtype.tag = "Compound" /\ phase = "scanning") =>
        \A w \in Workers : output[w].status = "row" =>
            \A j \in DOMAIN column_indices :
                LET f == dtype.fields[column_indices[j] + 1]
                    wr == LastWrite(output[w].writes, j - 1)
                    from == local[w] * dtype.size + f.offset
                IN /\ wr.col = j - 1
                   /\ f.ty.tag \notin {"Compound", "VarLenAscii"} => wr.src = from
                   /\ Scalar(f.ty) => wr.bytes = SubSeq(data, from + 1, from + Size(f.ty))
                   /\ f.ty.tag = "VarLenAscii" =>
                         wr.heap = AsUnsigned(SubSeq(data, from + 1, from + USizeBytes))
                   /\ f.ty.tag = "Compound" =>
                         wr.src >= from /\ wr.src < from + Size(f.ty)

\* columns {0, 2} of the three-field compound: column 1 of the row holds
\* field c, read at its own offset 3
C6_Witness ==
    /\ dtype = DThree /\ column_indices = <<0, 2>>
    /\ \E w \in Workers :
          /\ output[w].status = "row" /\ local[w] = 1
          /\ LastWrite(output[w].writes, 1).src = 4 + 3
          /\ LastWrite(output[w].writes, 1).bytes = <<31>>

\* C7: a top-level Compound with n fields publishes n columns named by the
\* fields in order, and every field that is itself a Compound, whatever the
\* number of its fields, is published as one struct column whose members
\* are the nested fields.
C7_Flattening ==
    (phase # "opened" /\ dtype.tag = "Compound") =>
        /\ Len(schema) = Len(dtype.fields)
        /\ \A i \in DOMAIN dtype.fields :
              /\ schema[i].name = dtype.fields[i].name
              /\ dtype.fields[i].ty.tag = "Compound" =>
                    /\ schema[i].ty.id = "Struct"
                    /\ Len(schema[i].ty.children) = Len(dtype.fields[i].ty.fields)
                    /\ \A m \in DOMAIN dtype.fields[i].ty.fields :
                          schema[i].ty.children[m].name = dtype.fields[i].ty.fields[m].name

\* C8: over any byte vector, a row is reported only for a record slice of
\* exactly stride bytes lying inside the buffer, and the call whose position
\* addresses a record cut short by the end of the buffer panics and aborts
\* the scan instead of reporting a row.
C8_NoCorruptRow ==
    \A w \in Workers :
        /\ output[w].status = "row" =>
              /\ output[w].span = Stride
              /\ output[w].at >= 0 /\ output[w].at + output[w].span <= Len(data)
              /\ \A k \in DOMAIN output[w].writes :
                    output[w].writes[k].kind \in {"flat", "array_child", "list_child", "blob"}
        /\ (Finished(w) /\ local[w] * Stride < Len(data)
                        /\ local[w] * Stride + Stride > Len(data)) =>
              /\ output[w].status = "panic"
              /\ phase = "aborted"

\* one whole record then a truncated one: the second call has panicked
C8_Witness ==
    /\ Len(data) % Stride # 0 /\ Len(data) > Stride
    /\ \E w \in Workers : Finished(w) /\ local[w] = 1 /\ output[w].status = "panic"
    /\ phase = "aborted" /\ RowsReported = 1

\* C9: a VarLenArray value hands the sink the payload found through the
\* header's locator, count * element size bytes of it, not bytes of the
\* record at the header's position.
C9_VarLenPayload ==
    (dtype \in {DVarLen, DVarLenRec} /\ phase = "scanning") =>
        \A w \in Workers : \A k \in DOMAIN output[w].writes :
            LET wr == output[w].writes[k]
                hdr == local[w] * Stride
                count == AsUnsigned(SubSeq(data, hdr + 1, hdr + USizeBytes))
                loc == AsUnsigned(SubSeq(data, hdr + USizeBytes + 1, hdr + 2 * USizeBytes))
            IN (output[w].status = "row" /\ wr.kind = "list_child") =>
                  /\ wr.bytes = SubSeq(Heap[loc], 1, count)
                  /\ wr.src = -1

\* C10: decoding a record of a Compound with n top-level fields writes each
\* of the columns 0..n-1 exactly once and no other column, the columns that
\* iter_dtype publishes for the same descriptor.
C10_ColumnDiscipline ==
    (phase = "scanning" /\ init_dtype.tag = "Compound") =>
        \A w \in Workers : output[w].status = "row" =>
            LET n == Len(init_dtype.fields)
                ws == output[w].writes
            IN /\ Len(iter_dtype(init_dtype)) = n
               /\ \A c \in 0..(n - 1) : WritesTo(ws, c) = 1
               /\ \A k \in DOMAIN ws : ws[k].col \in 0..(n - 1)

====
